---------------------------- MODULE Spec2Model ----------------------------
(***************************************************************************)
(* A model of the CHIP-8 core of wrkean/chip8-emu: the Chip8 struct of      *)
(* src/mods/chip8.rs (new, init, emulate_cycle, update_timers) and the      *)
(* writes main.rs makes to its public fields (keypad, draw_flag).           *)
(*                                                                         *)
(* The struct is one record, chip8, with the fields of the Rust struct.     *)
(* A Rust panic (an out-of-bounds index, unwrap of None) unwinds through    *)
(* main, which catches nothing: the process ends.  It is modelled as        *)
(* outcome = "panic", after which no call is enabled.                       *)
(***************************************************************************)
EXTENDS Integers, Sequences, FiniteSets, TLC

(***************************************************************************)
(* Program constants.                                                       *)
(***************************************************************************)
FONTSET_START_ADDR == 80
PROGRAM_START_ADDR == 512
CHIP8_WIDTH == 64
CHIP8_HEIGHT == 32
MEMORY_LEN == 4096
NUM_REGS == 16
NUM_KEYS == 16
U8 == 256
U16 == 65536
\* main.rs: cycles per frame
CPF == 15

(***************************************************************************)
(* Bounds of the model.                                                     *)
(***************************************************************************)
\* remembered pre-states of the last consecutive emulate_cycle calls
HistLen == 2

(***************************************************************************)
(* Integer helpers: the u8 / u16 operations the code uses.                  *)
(***************************************************************************)
Bit(v, k) == (v \div (2 ^ k)) % 2

\* a & b on w-bit operands
BitAnd(a, b, w) ==
    LET s[k \in 0..w] ==
            IF k = w THEN 0 ELSE (2 ^ k) * (Bit(a, k) * Bit(b, k)) + s[k + 1]
    IN  s[0]

\* a | b on w-bit operands
BitOr(a, b, w) ==
    LET s[k \in 0..w] ==
            IF k = w THEN 0
            ELSE (2 ^ k) * (IF Bit(a, k) + Bit(b, k) > 0 THEN 1 ELSE 0) + s[k + 1]
    IN  s[0]

\* a ^ b on w-bit operands
BitXor(a, b, w) ==
    LET s[k \in 0..w] ==
            IF k = w THEN 0 ELSE (2 ^ k) * ((Bit(a, k) + Bit(b, k)) % 2) + s[k + 1]
    IN  s[0]

\* (a as u16) << 8, a >> n, and `as u8` truncation
Shl16(a, n) == (a * (2 ^ n)) % U16
Shr(a, n) == a \div (2 ^ n)
AsU8(a) == a % U8

(***************************************************************************)
(* The machine.                                                             *)
(***************************************************************************)
\* Chip8::new()
New ==
    [ stack       |-> << >>,
      PC          |-> \h200,
      V           |-> [i \in 0..(NUM_REGS - 1) |-> 0],
      memory      |-> [a \in 0..(MEMORY_LEN - 1) |-> 0],
      I           |-> 0,
      delay_timer |-> 0,
      sound_timer |-> 0,
      keypad      |-> [k \in 0..(NUM_KEYS - 1) |-> 0],
      display     |-> [p \in 0..(CHIP8_WIDTH * CHIP8_HEIGHT - 1) |-> 0],
      draw_flag   |-> FALSE ]

\* the result of a call on the struct: the struct after it and whether it
\* returned ("Ok"), returned an io::Error (its kind) or panicked ("panic")
Ret(m, o) == [m |-> m, outcome |-> o]

\* load_fontset with the start address forgotten: the bytes land at 0
load_fontset_at0(m, fontset) ==
    Ret([m EXCEPT !.memory =
            [a \in 0..(Len(fontset) - 1) |-> fontset[a + 1]] @@ m.memory],
        "Ok")

\* load_fontset (lines 41-45): memory[FONTSET_START_ADDR + i] = byte for
\* i = 0, 1, ... in order; the first index outside memory panics, with the
\* bytes before it written
load_fontset(m, fontset) ==
    LET room    == MEMORY_LEN - FONTSET_START_ADDR
        written == IF Len(fontset) > room THEN room ELSE Len(fontset)
        bytes   == [a \in FONTSET_START_ADDR..(FONTSET_START_ADDR + written - 1)
                       |-> fontset[a - FONTSET_START_ADDR + 1]]
    IN  Ret([m EXCEPT !.memory = bytes @@ m.memory],
            IF Len(fontset) > room THEN "panic" ELSE "Ok")

\* the file at `path`: its bytes, or no readable file (File::open fails)
RomFile(bytes) == [readable |-> TRUE, bytes |-> bytes]
NoFile == [readable |-> FALSE, bytes |-> << >>]

\* load_rom (lines 48-69): the file is read, then the bounds check, then
\* copy_from_slice into memory[PROGRAM_START_ADDR..end]
load_rom(m, file) ==
    IF ~file.readable THEN Ret(m, "NotFound")
    ELSE LET buf == file.bytes
             end == PROGRAM_START_ADDR + Len(buf)
         IN  IF end > MEMORY_LEN THEN Ret(m, "InvalidData")
             ELSE Ret([m EXCEPT !.memory =
                          [a \in PROGRAM_START_ADDR..(end - 1)
                              |-> buf[a - PROGRAM_START_ADDR + 1]] @@ m.memory],
                      "Ok")

\* init with the two loads in the other order: the fontset is copied before
\* the ROM is checked
init_fontset_first(m, file, fontset) ==
    LET r == load_fontset(m, fontset)
    IN  IF r.outcome # "Ok" THEN r ELSE load_rom(r.m, file)

\* init (lines 71-76): load_rom(path)?; load_fontset(fontset); Ok(())
init(m, file, fontset) ==
    LET r == load_rom(m, file)
    IN  IF r.outcome # "Ok" THEN r ELSE load_fontset(r.m, fontset)

(***************************************************************************)
(* emulate_cycle, one operator per match arm.  Each takes the struct and    *)
(* the decoded fields it uses and gives Ret(struct after, outcome).         *)
(* PC is a u16; an instruction executes only after a fetch at PC <= 4094,   *)
(* popped addresses were pushed from such a PC, and NNN + V[0] <= 0x10FE,   *)
(* so no PC arithmetic below exceeds 16 bits.                               *)
(***************************************************************************)
AdvancePC(m, n) == [m EXCEPT !.PC = m.PC + n]

\* a clear that resets draw_flag as well
Op00E0_resets_flag(m) ==
    Ret(AdvancePC([m EXCEPT !.display =
                      [p \in 0..(CHIP8_WIDTH * CHIP8_HEIGHT - 1) |-> 0],
                            !.draw_flag = FALSE], 2),
        "Ok")

\* 00E0 (lines 107-111)
Op00E0(m) ==
    Ret(AdvancePC([m EXCEPT !.display =
                      [p \in 0..(CHIP8_WIDTH * CHIP8_HEIGHT - 1) |-> 0]], 2),
        "Ok")

\* a return that takes the oldest stack entry instead of the newest
Op00EE_oldest(m) ==
    IF Len(m.stack) = 0 THEN Ret(m, "panic")
    ELSE Ret([m EXCEPT !.PC = m.stack[1] + 2,
                       !.stack = SubSeq(m.stack, 2, Len(m.stack))],
             "Ok")

\* 00EE (lines 112-116): stack.pop().unwrap() panics on an empty Vec
Op00EE(m) ==
    IF Len(m.stack) = 0 THEN Ret(m, "panic")
    ELSE Ret([m EXCEPT !.PC = m.stack[Len(m.stack)] + 2,
                       !.stack = SubSeq(m.stack, 1, Len(m.stack) - 1)],
             "Ok")

\* an unknown word that clears the display
OpInvalid_clears(m) ==
    Ret([m EXCEPT !.display = [p \in 0..(CHIP8_WIDTH * CHIP8_HEIGHT - 1) |-> 0]],
        "Ok")

\* the arms that only eprintln!("Invalid opcode") (lines 117-119, 235-237,
\* 314-316, 396-398): nothing of the struct changes
OpInvalid(m) == Ret(m, "Ok")

\* a jump that pushes PC as a call does
Op1NNN_pushes(m, NNN) ==
    Ret([m EXCEPT !.stack = Append(m.stack, m.PC), !.PC = NNN], "Ok")

\* 1NNN (lines 122-125)
Op1NNN(m, NNN) == Ret([m EXCEPT !.PC = NNN], "Ok")

\* 2NNN (lines 126-130)
Op2NNN(m, NNN) ==
    Ret([m EXCEPT !.stack = Append(m.stack, m.PC), !.PC = NNN], "Ok")

\* the skip arms: PC += 4 if cond else PC += 2
Skip(m, cond) == Ret(AdvancePC(m, IF cond THEN 4 ELSE 2), "Ok")

\* 3XNN (lines 131-139)
Op3XNN(m, X, NN) == Skip(m, m.V[X] = NN)

\* 4XNN (lines 140-148)
Op4XNN(m, X, NN) == Skip(m, m.V[X] # NN)

\* 5XY_ (lines 149-156): the low nibble is not examined
Op5XY0(m, X, Y) == Skip(m, m.V[X] = m.V[Y])

\* 6XNN (lines 157-161)
Op6XNN(m, X, NN) == Ret(AdvancePC([m EXCEPT !.V[X] = AsU8(NN)], 2), "Ok")

\* 7XNN (lines 162-166): wrapping_add
Op7XNN(m, X, NN) ==
    Ret(AdvancePC([m EXCEPT !.V[X] = (m.V[X] + AsU8(NN)) % U8], 2), "Ok")

\* 8XY0 (lines 169-173)
Op8XY0(m, X, Y) == Ret(AdvancePC([m EXCEPT !.V[X] = m.V[Y]], 2), "Ok")

\* 8XY1 (lines 174-179)
Op8XY1(m, X, Y) ==
    Ret(AdvancePC([m EXCEPT !.V[X] = BitOr(m.V[X], m.V[Y], 8)], 2), "Ok")

\* 8XY2 (lines 180-185)
Op8XY2(m, X, Y) ==
    Ret(AdvancePC([m EXCEPT !.V[X] = BitAnd(m.V[X], m.V[Y], 8)], 2), "Ok")

\* 8XY3 (lines 186-191)
Op8XY3(m, X, Y) ==
    Ret(AdvancePC([m EXCEPT !.V[X] = BitXor(m.V[X], m.V[Y], 8)], 2), "Ok")

\* 8XY4 (lines 192-200): overflowing_add, then V[0xF] is written, then V[X]
Op8XY4(m, X, Y) ==
    LET sum   == (m.V[X] + m.V[Y]) % U8
        carry == m.V[X] + m.V[Y] > U8 - 1
        V1    == [m.V EXCEPT ![15] = IF carry THEN 1 ELSE 0]
        V2    == [V1 EXCEPT ![X] = sum]
    IN  Ret(AdvancePC([m EXCEPT !.V = V2], 2), "Ok")

\* 8XY5 (lines 201-209): overflowing_sub, then V[0xF] is written, then V[X]
Op8XY5(m, X, Y) ==
    LET diff   == (m.V[X] - m.V[Y]) % U8
        borrow == m.V[X] < m.V[Y]
        V1     == [m.V EXCEPT ![15] = IF borrow THEN 0 ELSE 1]
        V2     == [V1 EXCEPT ![X] = diff]
    IN  Ret(AdvancePC([m EXCEPT !.V = V2], 2), "Ok")

\* 8XY6 (lines 210-217): V[0xF] = V[X] & 1, then V[X] >>= 1 on the
\* registers as they then are
Op8XY6(m, X) ==
    LET V1 == [m.V EXCEPT ![15] = BitAnd(m.V[X], 1, 8)]
        V2 == [V1 EXCEPT ![X] = Shr(V1[X], 1)]
    IN  Ret(AdvancePC([m EXCEPT !.V = V2], 2), "Ok")

\* 8XY7 (lines 218-226)
Op8XY7(m, X, Y) ==
    LET diff   == (m.V[Y] - m.V[X]) % U8
        borrow == m.V[Y] < m.V[X]
        V1     == [m.V EXCEPT ![15] = IF borrow THEN 0 ELSE 1]
        V2     == [V1 EXCEPT ![X] = diff]
    IN  Ret(AdvancePC([m EXCEPT !.V = V2], 2), "Ok")

\* 8XYE (lines 227-234): V[0xF] = (V[X] & 0x80) >> 7, then V[X] <<= 1 on
\* the registers as they then are (u8: the top bit is dropped)
Op8XYE(m, X) ==
    LET V1 == [m.V EXCEPT ![15] = Shr(BitAnd(m.V[X], \h80, 8), 7)]
        V2 == [V1 EXCEPT ![X] = (V1[X] * 2) % U8]
    IN  Ret(AdvancePC([m EXCEPT !.V = V2], 2), "Ok")

\* a 9XY0 that skips when the registers are equal, as 5XY0 does
Op9XY0_eq(m, X, Y) == Skip(m, m.V[X] = m.V[Y])

\* 9XY_ (lines 240-248): the low nibble is not examined
Op9XY0(m, X, Y) == Skip(m, m.V[X] # m.V[Y])

\* ANNN (lines 249-253)
OpANNN(m, NNN) == Ret(AdvancePC([m EXCEPT !.I = NNN], 2), "Ok")

\* BNNN (lines 254-257)
OpBNNN(m, NNN) == Ret([m EXCEPT !.PC = NNN + m.V[0]], "Ok")

\* CXNN (lines 258-264)
OpCXNN(m, X, NN, rand_byte) ==
    Ret(AdvancePC([m EXCEPT !.V[X] = BitAnd(rand_byte, AsU8(NN), 8)], 2), "Ok")

\* display[index]: an index outside the array panics
DisplayInBounds(index) == index >= 0 /\ index < CHIP8_WIDTH * CHIP8_HEIGHT

\* the inner loop with the x coordinate not wrapped: the sprite runs on into
\* the next row of the flat array
RECURSIVE DrawCols_nowrap(_, _, _, _, _, _)
DrawCols_nowrap(m, sprite, x, y, row, col) ==
    IF col >= 8 THEN Ret(m, "Ok")
    ELSE LET pixel == BitAnd(Shr(sprite, 7 - col), 1, 8)
             xcord == (x % CHIP8_WIDTH) + col
             ycord == (y + row) % CHIP8_HEIGHT
             index == ycord * CHIP8_WIDTH + xcord
         IN  IF pixel # 1 THEN DrawCols_nowrap(m, sprite, x, y, row, col + 1)
             ELSE IF ~DisplayInBounds(index) THEN Ret(m, "panic")
             ELSE LET mf == IF m.display[index] = 1
                            THEN [m EXCEPT !.V[15] = 1] ELSE m
                  IN  DrawCols_nowrap(
                          [mf EXCEPT !.display[index] =
                                         BitXor(mf.display[index], 1, 8)],
                          sprite, x, y, row, col + 1)

\* the inner loop with |= 1 for ^= 1: a set pixel is never erased
RECURSIVE DrawCols_or(_, _, _, _, _, _)
DrawCols_or(m, sprite, x, y, row, col) ==
    IF col >= 8 THEN Ret(m, "Ok")
    ELSE LET pixel == BitAnd(Shr(sprite, 7 - col), 1, 8)
             xcord == (x + col) % CHIP8_WIDTH
             ycord == (y + row) % CHIP8_HEIGHT
             index == ycord * CHIP8_WIDTH + xcord
         IN  IF pixel # 1 THEN DrawCols_or(m, sprite, x, y, row, col + 1)
             ELSE IF ~DisplayInBounds(index) THEN Ret(m, "panic")
             ELSE LET mf == IF m.display[index] = 1
                            THEN [m EXCEPT !.V[15] = 1] ELSE m
                  IN  DrawCols_or(
                          [mf EXCEPT !.display[index] =
                                         BitOr(mf.display[index], 1, 8)],
                          sprite, x, y, row, col + 1)

\* DXYN, the inner loop (lines 275-288): col..7 of one sprite row
RECURSIVE DrawCols(_, _, _, _, _, _)
DrawCols(m, sprite, x, y, row, col) ==
    IF col >= 8 THEN Ret(m, "Ok")
    ELSE LET pixel == BitAnd(Shr(sprite, 7 - col), 1, 8)
             xcord == (x + col) % CHIP8_WIDTH
             ycord == (y + row) % CHIP8_HEIGHT
             index == ycord * CHIP8_WIDTH + xcord
         IN  IF pixel # 1 THEN DrawCols(m, sprite, x, y, row, col + 1)
             ELSE IF ~DisplayInBounds(index) THEN Ret(m, "panic")
             ELSE LET mf == IF m.display[index] = 1
                            THEN [m EXCEPT !.V[15] = 1] ELSE m
                  IN  DrawCols([mf EXCEPT !.display[index] =
                                              BitXor(mf.display[index], 1, 8)],
                               sprite, x, y, row, col + 1)

\* DXYN, the outer loop (lines 273-289): memory[I as usize + row] panics
\* past the end of memory, with the rows before it drawn
RECURSIVE DrawRows(_, _, _, _, _)
DrawRows(m, x, y, height, row) ==
    IF row >= height THEN Ret(m, "Ok")
    ELSE IF m.I + row >= MEMORY_LEN THEN Ret(m, "panic")
    ELSE LET r == DrawCols(m, m.memory[m.I + row], x, y, row, 0)
         IN  IF r.outcome # "Ok" THEN r
             ELSE DrawRows(r.m, x, y, height, row + 1)

\* a draw that does not zero V[0xF] before the rows
OpDXYN_keepflag(m, X, Y, opcode) ==
    LET x      == m.V[X]
        y      == m.V[Y]
        height == BitAnd(opcode, \h000F, 16)
        r      == DrawRows(m, x, y, height, 0)
    IN  IF r.outcome # "Ok" THEN r
        ELSE Ret(AdvancePC([r.m EXCEPT !.draw_flag = TRUE], 2), "Ok")

\* DXYN (lines 265-293): x and y are read before V[0xF] is zeroed
OpDXYN(m, X, Y, opcode) ==
    LET x      == m.V[X]
        y      == m.V[Y]
        height == BitAnd(opcode, \h000F, 16)
        r      == DrawRows([m EXCEPT !.V[15] = 0], x, y, height, 0)
    IN  IF r.outcome # "Ok" THEN r
        ELSE Ret(AdvancePC([r.m EXCEPT !.draw_flag = TRUE], 2), "Ok")

\* EX9E (lines 296-304): keypad[V[X] as usize] panics for V[X] > 15
OpEX9E(m, X) ==
    IF m.V[X] >= NUM_KEYS THEN Ret(m, "panic")
    ELSE Skip(m, m.keypad[m.V[X]] = 1)

\* EXA1 (lines 305-313)
OpEXA1(m, X) ==
    IF m.V[X] >= NUM_KEYS THEN Ret(m, "panic")
    ELSE Skip(m, m.keypad[m.V[X]] = 0)

\* FX07 (lines 321-325)
OpFX07(m, X) == Ret(AdvancePC([m EXCEPT !.V[X] = m.delay_timer], 2), "Ok")

\* a wait for key that takes the highest pressed key instead of the lowest
OpFX0A_highest(m, X) ==
    LET pressed == {i \in 0..(NUM_KEYS - 1) : m.keypad[i] = 1}
    IN  IF pressed = {} THEN Ret(m, "Ok")
        ELSE LET i == CHOOSE k \in pressed : \A j \in pressed : k >= j
             IN  Ret(AdvancePC([m EXCEPT !.V[X] = i], 2), "Ok")

\* FX0A (lines 326-346): the first i in 0..16 with keypad[i] == 1
OpFX0A(m, X) ==
    LET pressed == {i \in 0..(NUM_KEYS - 1) : m.keypad[i] = 1}
    IN  IF pressed = {} THEN Ret(m, "Ok")
        ELSE LET i == CHOOSE k \in pressed : \A j \in pressed : k <= j
             IN  Ret(AdvancePC([m EXCEPT !.V[X] = i], 2), "Ok")

\* FX15 (lines 347-351)
OpFX15(m, X) == Ret(AdvancePC([m EXCEPT !.delay_timer = m.V[X]], 2), "Ok")

\* FX18 (lines 352-356)
OpFX18(m, X) == Ret(AdvancePC([m EXCEPT !.sound_timer = m.V[X]], 2), "Ok")

\* FX1E (lines 357-362): wrapping_add on u16
OpFX1E(m, X) == Ret(AdvancePC([m EXCEPT !.I = (m.I + m.V[X]) % U16], 2), "Ok")

\* FX29 (lines 363-370)
OpFX29(m, X) ==
    Ret(AdvancePC([m EXCEPT !.I = FONTSET_START_ADDR + m.V[X] * 5], 2), "Ok")

\* memory[addr] = byte for the (addr, byte) pairs of `writes` in order; the
\* first addr outside memory panics with the earlier writes done
RECURSIVE StoreAll(_, _)
StoreAll(m, writes) ==
    IF writes = << >> THEN Ret(m, "Ok")
    ELSE IF writes[1][1] >= MEMORY_LEN THEN Ret(m, "panic")
    ELSE StoreAll([m EXCEPT !.memory[writes[1][1]] = writes[1][2]], Tail(writes))

\* FX33 (lines 371-381)
OpFX33(m, X) ==
    LET value == m.V[X]
        r == StoreAll(m, << <<m.I, value \div 100>>,
                            <<m.I + 1, (value % 100) \div 10>>,
                            <<m.I + 2, value % 10>> >>)
    IN  IF r.outcome # "Ok" THEN r ELSE Ret(AdvancePC(r.m, 2), "Ok")

\* FX55 (lines 382-388): for i in 0..=X
OpFX55(m, X) ==
    LET r == StoreAll(m, [k \in 1..(X + 1) |-> <<m.I + (k - 1), m.V[k - 1]>>])
    IN  IF r.outcome # "Ok" THEN r ELSE Ret(AdvancePC(r.m, 2), "Ok")

\* FX65 (lines 389-395): for i in 0..=X, V[i] = memory[I as usize + i]
RECURSIVE LoadRegs(_, _, _)
LoadRegs(m, X, i) ==
    IF i > X THEN Ret(m, "Ok")
    ELSE IF m.I + i >= MEMORY_LEN THEN Ret(m, "panic")
    ELSE LoadRegs([m EXCEPT !.V[i] = m.memory[m.I + i]], X, i + 1)

OpFX65(m, X) ==
    LET r == LoadRegs(m, X, 0)
    IN  IF r.outcome # "Ok" THEN r ELSE Ret(AdvancePC(r.m, 2), "Ok")

\* the match on opcode & 0xF000 and the inner matches (lines 104-404)
Execute(m, opcode, X, Y, NN, NNN, rand_byte) ==
    LET family == BitAnd(opcode, \hF000, 16)
        low    == BitAnd(opcode, \h00FF, 16)
        nib    == BitAnd(opcode, \h000F, 16)
    IN  CASE family = \h0000 ->
                 (CASE low = \h00E0 -> Op00E0(m)
                    [] low = \h00EE -> Op00EE(m)
                    [] OTHER -> OpInvalid(m))
          [] family = \h1000 -> Op1NNN(m, NNN)
          [] family = \h2000 -> Op2NNN(m, NNN)
          [] family = \h3000 -> Op3XNN(m, X, NN)
          [] family = \h4000 -> Op4XNN(m, X, NN)
          [] family = \h5000 -> Op5XY0(m, X, Y)
          [] family = \h6000 -> Op6XNN(m, X, NN)
          [] family = \h7000 -> Op7XNN(m, X, NN)
          [] family = \h8000 ->
                 (CASE nib = \h0 -> Op8XY0(m, X, Y)
                    [] nib = \h1 -> Op8XY1(m, X, Y)
                    [] nib = \h2 -> Op8XY2(m, X, Y)
                    [] nib = \h3 -> Op8XY3(m, X, Y)
                    [] nib = \h4 -> Op8XY4(m, X, Y)
                    [] nib = \h5 -> Op8XY5(m, X, Y)
                    [] nib = \h6 -> Op8XY6(m, X)
                    [] nib = \h7 -> Op8XY7(m, X, Y)
                    [] nib = \hE -> Op8XYE(m, X)
                    [] OTHER -> OpInvalid(m))
          [] family = \h9000 -> Op9XY0(m, X, Y)
          [] family = \hA000 -> OpANNN(m, NNN)
          [] family = \hB000 -> OpBNNN(m, NNN)
          [] family = \hC000 -> OpCXNN(m, X, NN, rand_byte)
          [] family = \hD000 -> OpDXYN(m, X, Y, opcode)
          [] family = \hE000 ->
                 (CASE low = \h9E -> OpEX9E(m, X)
                    [] low = \hA1 -> OpEXA1(m, X)
                    [] OTHER -> OpInvalid(m))
          [] family = \hF000 ->
                 (CASE low = \h07 -> OpFX07(m, X)
                    [] low = \h0A -> OpFX0A(m, X)
                    [] low = \h15 -> OpFX15(m, X)
                    [] low = \h18 -> OpFX18(m, X)
                    [] low = \h1E -> OpFX1E(m, X)
                    [] low = \h29 -> OpFX29(m, X)
                    [] low = \h33 -> OpFX33(m, X)
                    [] low = \h55 -> OpFX55(m, X)
                    [] low = \h65 -> OpFX65(m, X)
                    [] OTHER -> OpInvalid(m))
          [] OTHER -> OpInvalid(m)

\* the fetch (line 90): memory[PC] and memory[PC + 1], each bounds-checked
FetchInBounds(m) == m.PC < MEMORY_LEN /\ m.PC + 1 < MEMORY_LEN

Fetch(m) == BitOr(Shl16(m.memory[m.PC], 8), m.memory[m.PC + 1], 16)

\* emulate_cycle (lines 81-405); rand_byte is what rand::random() gives
emulate_cycle(m, rand_byte) ==
    IF ~FetchInBounds(m) THEN Ret(m, "panic")
    ELSE LET opcode == Fetch(m)
             X      == Shr(BitAnd(opcode, \h0F00, 16), 8)
             Y      == Shr(BitAnd(opcode, \h00F0, 16), 4)
             NN     == BitAnd(opcode, \h00FF, 16)
             NNN    == BitAnd(opcode, \h0FFF, 16)
         IN  Execute(m, opcode, X, Y, NN, NNN, rand_byte)

\* a tick that returns early when delay_timer is 0
update_timers_coupled(m) ==
    IF m.delay_timer > 0
    THEN [m EXCEPT !.delay_timer = m.delay_timer - 1,
                   !.sound_timer = IF m.sound_timer > 0
                                   THEN m.sound_timer - 1 ELSE 0]
    ELSE m

\* update_timers (lines 407-414)
update_timers(m) ==
    LET m1 == IF m.delay_timer > 0
              THEN [m EXCEPT !.delay_timer = m.delay_timer - 1] ELSE m
    IN  IF m1.sound_timer > 0
        THEN [m1 EXCEPT !.sound_timer = m1.sound_timer - 1] ELSE m1

(***************************************************************************)
(* Inputs: the fontset main passes, ROM files, random bytes, keys.          *)
(***************************************************************************)
\* chip8_fontset of main
chip8_fontset ==
    << \hF0, \h90, \h90, \h90, \hF0,    \h20, \h60, \h20, \h20, \h70,
       \hF0, \h10, \hF0, \h80, \hF0,    \hF0, \h10, \hF0, \h10, \hF0,
       \h90, \h90, \hF0, \h10, \h10,    \hF0, \h80, \hF0, \h10, \hF0,
       \hF0, \h80, \hF0, \h90, \hF0,    \hF0, \h10, \h20, \h40, \h40,
       \hF0, \h90, \hF0, \h90, \hF0,    \hF0, \h90, \hF0, \h10, \hF0,
       \hF0, \h90, \hF0, \h90, \h90,    \hE0, \h90, \hE0, \h90, \hE0,
       \hF0, \h80, \h80, \h80, \hF0,    \hE0, \h90, \h90, \h90, \hE0,
       \hF0, \h80, \hF0, \h80, \hF0,    \hF0, \h80, \hF0, \h80, \h80 >>

\* the longest fontset the caller may pass: it ends where the program starts
LongFontset ==
    [i \in 1..(PROGRAM_START_ADDR - FONTSET_START_ADDR) |-> (i % 255) + 1]

\* the bytes of a program given as 16-bit opcodes (high byte first), followed
\* by data bytes
Prog(ops, data) ==
    [i \in 1..(2 * Len(ops)) |->
        IF i % 2 = 1 THEN ops[(i + 1) \div 2] \div 256 ELSE ops[i \div 2] % 256]
    \o data

\* the most bytes load_rom accepts
RomCapacity == MEMORY_LEN - PROGRAM_START_ADDR

\* a file of n bytes: every word below 0xFFC is a jump to 0xFFC, and the
\* words from there on are 6XNN instructions, so that the machine runs
\* straight-line through the last two instructions of memory
FillRom(n) ==
    [i \in 1..n |->
        IF i <= \hFFC - PROGRAM_START_ADDR
            THEN (IF i % 2 = 1 THEN \h1F ELSE \hFC)
            ELSE (IF i % 2 = 1 THEN \h60 ELSE (i \div 2) % 4)]

\* opcodes no match arm decodes
UnknownOps ==
    { \h0000, \h00E1, \h0123, \h0FFF, \h8128, \h812D, \h812F,
      \hE100, \hE19F, \hE1A0, \hF100, \hF108, \hF1FF }

\* small programs
SmallRoms ==
    { Prog(<< \h6005, \h7003, \h1204 >>, << >>),           \* set, add, halt
      Prog(<< \h00EE >>, << >>),                           \* return, no call
      Prog(<< \h2204, \h00EE, \h00EE >>, << >>),           \* call, return, return
      Prog(<< \h1FFF >>, << >>),                           \* jump to 0xFFF
      Prog(<< \h1FFE >>, << >>),                           \* jump to 0xFFE
      Prog(<< \h60FF, \hBFFF >>, << >>),                   \* jump to 0xFFF + 0xFF
      Prog(<< \hA208, \hD001, \h00E0, \h1206 >>, << \hFF >>),  \* draw, clear, halt
      Prog(<< \h6003, \hF015, \h6102, \hF118, \h1208 >>, << >>),  \* timers, halt
      Prog(<< \hF20A, \h1202 >>, << >>),                   \* wait for key, halt
      Prog(<< \hC1FF, \h1202 >>, << >>) }                  \* random, halt
    \cup { Prog(<< \h6A2A, op >>, << >>) : op \in UnknownOps }

Roms ==
    { RomFile(b) : b \in SmallRoms }
    \cup { RomFile(FillRom(n)) :
             n \in {0, RomCapacity - 1, RomCapacity, RomCapacity + 1} }
    \cup { NoFile }

\* what rand::random::<u8>() may give
RandBytes == { \h00, \hA5, \hFF }

\* rand::random() is called in the CXNN arm alone (line 261): the values the
\* cycle about to run on m may draw (one, unused, in every other arm)
RandDraws(m) ==
    IF FetchInBounds(m) /\ BitAnd(Fetch(m), \hF000, 16) = \hC000
    THEN RandBytes ELSE { \h00 }

\* the keys whose events the host delivers
HostKeys == { 0, 3, 15 }

(***************************************************************************)
(* The state machine.                                                       *)
(***************************************************************************)
VARIABLES
    chip8,      \* the Chip8 struct
    outcome,    \* of the last call: "Ok", an io::ErrorKind, or "panic"
    rom_file,   \* the file at the path given to init
    fontset,    \* the fontset given to init
    last_call,  \* the last operation on the struct
    hist,       \* the structs before the last consecutive emulate_cycle
                \* calls, newest first, at most HistLen of them
    host,       \* where main's frame loop stands (phase, cycles run in this
                \* batch) and the framebuffer it last rendered (shown)
    executed    \* how many calls 2NNN and how many returns 00EE the cycles
                \* have executed (completed) on the struct

vars == << chip8, outcome, rom_file, fontset, last_call, hist, host, executed >>

\* main before its first loop iteration: the window shows nothing
HostStart ==
    [ phase  |-> "events",
      cycles |-> 0,
      shown  |-> [p \in 0..(CHIP8_WIDTH * CHIP8_HEIGHT - 1) |-> 0] ]

InitWith(files, fontsets) ==
    /\ chip8 = New
    /\ outcome = "Ok"
    /\ rom_file \in files
    /\ fontset \in fontsets
    /\ last_call = "new"
    /\ hist = << >>
    /\ host = HostStart
    /\ executed = [calls |-> 0, returns |-> 0]

\* the struct is usable: constructed, and no call has failed or panicked
Live == outcome = "Ok"

InitStep(file) ==
    LET r == init(chip8, file, fontset)
    IN  /\ chip8' = r.m
        /\ outcome' = r.outcome
        /\ rom_file' = file
        /\ last_call' = "init"
        /\ hist' = << >>
        /\ UNCHANGED << fontset, host, executed >>

\* chip8.init(&args[1], chip8_fontset) on the new struct (main, line 65)
Load == Live /\ last_call = "new" /\ InitStep(rom_file)

\* one chip8.emulate_cycle() (main, line 96)
CallEmulateCycle ==
    /\ Live
    /\ last_call # "new"
    /\ \E rand_byte \in RandDraws(chip8) :
          LET r == emulate_cycle(chip8, rand_byte)
              opcode == IF FetchInBounds(chip8) THEN Fetch(chip8) ELSE 0
          IN  /\ chip8' = r.m
              /\ outcome' = r.outcome
              /\ executed' =
                    IF r.outcome # "Ok" THEN executed
                    ELSE IF BitAnd(opcode, \hF000, 16) = \h2000
                         THEN [executed EXCEPT !.calls = executed.calls + 1]
                    ELSE IF opcode = \h00EE
                         THEN [executed EXCEPT !.returns = executed.returns + 1]
                    ELSE executed
    /\ last_call' = "emulate_cycle"
    /\ hist' = SubSeq(<< chip8 >> \o hist, 1,
                      IF Len(hist) + 1 > HistLen THEN HistLen ELSE Len(hist) + 1)
    /\ UNCHANGED << rom_file, fontset >>

EmulateCycle == CallEmulateCycle /\ UNCHANGED host

\* chip8.update_timers() (main, line 100)
CallUpdateTimers ==
    /\ Live
    /\ last_call # "new"
    /\ chip8' = update_timers(chip8)
    /\ last_call' = "update_timers"
    /\ hist' = << >>
    /\ UNCHANGED << outcome, rom_file, fontset, executed >>

UpdateTimers == CallUpdateTimers /\ UNCHANGED host

\* chip8.keypad[i] = 1 (main, line 80)
KeyDownEvent ==
    /\ Live
    /\ last_call # "new"
    /\ \E i \in HostKeys : chip8' = [chip8 EXCEPT !.keypad[i] = 1]
    /\ last_call' = "key_down"
    /\ hist' = << >>
    /\ UNCHANGED << outcome, rom_file, fontset, executed >>

KeyDown == KeyDownEvent /\ UNCHANGED host

\* chip8.keypad[i] = 0 (main, line 87)
KeyUpEvent ==
    /\ Live
    /\ last_call # "new"
    /\ \E i \in HostKeys : chip8' = [chip8 EXCEPT !.keypad[i] = 0]
    /\ last_call' = "key_up"
    /\ hist' = << >>
    /\ UNCHANGED << outcome, rom_file, fontset, executed >>

KeyUp == KeyUpEvent /\ UNCHANGED host

\* if chip8.draw_flag { render; chip8.draw_flag = false } (main, lines 104-108)
RenderAndClear ==
    /\ Live
    /\ chip8.draw_flag
    /\ chip8' = [chip8 EXCEPT !.draw_flag = FALSE]
    /\ last_call' = "present"
    /\ hist' = << >>
    /\ UNCHANGED << outcome, rom_file, fontset, executed >>

Present == RenderAndClear /\ UNCHANGED host

\* One session of main: the struct is created and loaded once; then cycles,
\* timer ticks, key events and presentations follow in any order.
Init ==
    \/ InitWith(Roms, { chip8_fontset })
    \/ InitWith({ RomFile(FillRom(RomCapacity)),
                  RomFile(Prog(<< \h6005, \h7003, \h1204 >>, << >>)) },
                { << >>, LongFontset })

Next ==
    \/ Load
    \/ EmulateCycle
    \/ UpdateTimers
    \/ KeyDown
    \/ KeyUp
    \/ Present

Spec == Init /\ [][Next]_vars

\* A struct that is used again: init is pub, and may be called on a struct
\* that has run, with any file.
ReinitFiles ==
    { RomFile(Prog(<< \h6003, \hF015, \h6102, \hF118, \h1208 >>, << >>)),
      RomFile(FillRom(RomCapacity)),
      RomFile(FillRom(RomCapacity + 1)),
      NoFile }

Reinit == Live /\ last_call # "new" /\ \E file \in ReinitFiles : InitStep(file)

InitReinit == InitWith(ReinitFiles, { chip8_fontset })

NextReinit ==
    \/ Load
    \/ Reinit
    \/ EmulateCycle
    \/ UpdateTimers

SpecReinit == InitReinit /\ [][NextReinit]_vars

(***************************************************************************)
(* The claims.                                                              *)
(***************************************************************************)
\* the step just taken is a call of emulate_cycle whose fetch was in bounds
CycleStep == last_call' = "emulate_cycle" /\ FetchInBounds(chip8)

\* the fields of a 16-bit opcode
FamilyOf(opcode) == opcode \div 4096
XOf(opcode) == (opcode \div 256) % 16
YOf(opcode) == (opcode \div 16) % 16
NOf(opcode) == opcode % 16

\* the words no decode rule matches: 0NNN other than 00E0 / 00EE, 8XY8..8XYD
\* and 8XYF, EXNN other than 9E / A1, FXNN outside the listed set
NoDecodeRule(opcode) ==
    LET family == FamilyOf(opcode)
        low    == opcode % 256
        nib    == NOf(opcode)
    IN  \/ family = 0 /\ opcode \notin { \h00E0, \h00EE }
        \/ family = 8 /\ nib \in (8..13) \cup { 15 }
        \/ family = 14 /\ low \notin { \h9E, \hA1 }
        \/ family = 15 /\ low \notin { \h07, \h0A, \h15, \h18, \h1E, \h29,
                                       \h33, \h55, \h65 }

\* C1: a cycle whose fetched word matches no decode rule leaves PC at the
\* old PC + 2 and changes nothing else of the machine.
C1_UnknownOpcodeAdvancesPC ==
    [][ (CycleStep /\ NoDecodeRule(Fetch(chip8)))
            => chip8' = [chip8 EXCEPT !.PC = chip8.PC + 2] ]_vars

\* C2: a cycle that executes the return instruction 00EE with an empty call
\* stack completes with a defined outcome: it does not crash the session.
C2_ReturnOnEmptyStackDoesNotCrash ==
    [][ (CycleStep /\ Fetch(chip8) = \h00EE /\ chip8.stack = << >>)
            => outcome' # "panic" ]_vars

\* C3: in every state reached from a successful load by emulate_cycle calls
\* the fetch is in bounds: PC <= 4094.
C3_FetchAlwaysInBounds ==
    (last_call # "new" /\ outcome = "Ok") => chip8.PC <= MEMORY_LEN - 2

\* the step just taken is a call of init
InitCalled == last_call' = "init"

\* C4: init fails with the ROM-too-large error exactly when
\* 0x200 + len(rom) > 4096, and a failed init leaves the whole machine state
\* as it was before the call.
C4_RomTooLargeExactlyAndNoPartialLoad ==
    [][ InitCalled =>
          /\ (outcome' = "InvalidData")
                <=> (rom_file'.readable
                     /\ \h200 + Len(rom_file'.bytes) > 4096)
          /\ (outcome' # "Ok") => (chip8' = chip8) ]_vars

\* C4 witness: a ROM of 3585 bytes was rejected on a struct that had run
C4_Witness ==
    /\ last_call = "init"
    /\ outcome = "InvalidData"
    /\ Len(rom_file.bytes) = 3585
    /\ chip8.PC # \h200
    /\ chip8.memory[\h200] # 0

\* all of the machine except memory and draw_flag is as new() leaves it
RegistersReset(m) ==
    /\ m.PC = \h200
    /\ \A i \in 0..15 : m.V[i] = 0
    /\ m.I = 0
    /\ m.delay_timer = 0
    /\ m.sound_timer = 0
    /\ m.stack = << >>
    /\ \A p \in 0..2047 : m.display[p] = 0
    /\ \A k \in 0..15 : m.keypad[k] = 0

\* C5: a successful init, from any prior state, leaves PC = 0x200 and the
\* registers, I, timers, stack, display and keypad zero or empty, so that the
\* memory too is what init gives on a fresh struct with the same ROM and
\* fontset.
C5_InitResetsMachine ==
    [][ (InitCalled /\ outcome' = "Ok") =>
          /\ RegistersReset(chip8')
          /\ chip8'.memory = init(New, rom_file', fontset').m.memory ]_vars

\* C6: after a successful init of a fresh struct, with a fontset no longer
\* than 0x200 - 0x50, memory holds the fontset from 0x50, the ROM from 0x200
\* and zero everywhere else.
C6_MemoryLayoutAfterInit ==
    (last_call = "init" /\ outcome = "Ok" /\ Len(fontset) <= \h200 - \h50) =>
        \A a \in 0..4095 :
            chip8.memory[a] =
                IF a >= \h50 /\ a - \h50 < Len(fontset)
                    THEN fontset[a - \h50 + 1]
                ELSE IF a >= \h200 /\ a - \h200 < Len(rom_file.bytes)
                    THEN rom_file.bytes[a - \h200 + 1]
                ELSE 0

\* C6 witness: the longest fontset and the longest ROM were loaded
C6_Witness ==
    /\ last_call = "init"
    /\ outcome = "Ok"
    /\ Len(fontset) = \h200 - \h50
    /\ Len(rom_file.bytes) = 4096 - \h200
    /\ chip8.memory[\h1FF] # 0
    /\ chip8.memory[\h200] = \h1F

(***************************************************************************)
(* The register ALU instructions, on programs that set V[X] and V[Y] and    *)
(* then execute one 8XY_ instruction.                                       *)
(***************************************************************************)
\* operand values: the ends of the u8 range and both sides of its middle
AluValues == { 0, 1, 3, 127, 128, 255 }

\* register indices: the flag register, and two others
AluRegs == { 0, 7, 15 }

\* the low nibbles of add, sub, shift right, reverse sub, shift left
AluNibbles == { \h4, \h5, \h6, \h7, \hE }

\* 6X vx; 6Y vy; 8XYn; halt
AluProg(X, Y, vx, vy, n) ==
    Prog(<< \h6000 + X * 256 + vx,
            \h6000 + Y * 256 + vy,
            \h8000 + X * 256 + Y * 16 + n,
            \h1206 >>, << >>)

AluRoms ==
    { RomFile(AluProg(X, Y, vx, vy, n)) :
        X \in AluRegs, Y \in AluRegs, vx \in AluValues, vy \in AluValues,
        n \in AluNibbles }

InitALU == InitWith(AluRoms, { chip8_fontset })

NextALU ==
    \/ Load
    \/ EmulateCycle

SpecALU == InitALU /\ [][NextALU]_vars

\* C7: after 8XY4 / 8XY5 / 8XY7, for all X and Y in 0..15, V[X] is the
\* result modulo 256, V[15] is exactly the carry / no-borrow bit of the
\* operands as they were before the instruction, and PC is the old PC + 2.
C7_AddSubResultAndFlag ==
    [][ (CycleStep /\ FamilyOf(Fetch(chip8)) = 8
                   /\ NOf(Fetch(chip8)) \in { 4, 5, 7 }) =>
          LET X == XOf(Fetch(chip8))
              Y == YOf(Fetch(chip8))
              n == NOf(Fetch(chip8))
              a == chip8.V[X]
              b == chip8.V[Y]
              result == CASE n = 4 -> (a + b) % 256
                          [] n = 5 -> (a - b) % 256
                          [] n = 7 -> (b - a) % 256
              flag   == CASE n = 4 -> a + b > 255
                          [] n = 5 -> a >= b
                          [] n = 7 -> b >= a
          IN  /\ chip8'.V[X] = result
              /\ chip8'.V[15] = (IF flag THEN 1 ELSE 0)
              /\ chip8'.PC = chip8.PC + 2 ]_vars

\* C8: after 8XY6 / 8XYE, for all X in 0..15 and every value v of V[X],
\* V[15] is the bit shifted out of v (bit 0, resp. bit 7) and V[X] is v
\* shifted by one place and truncated to 8 bits.
C8_ShiftResultAndFlag ==
    [][ (CycleStep /\ FamilyOf(Fetch(chip8)) = 8
                   /\ NOf(Fetch(chip8)) \in { 6, 14 }) =>
          LET X == XOf(Fetch(chip8))
              n == NOf(Fetch(chip8))
              v == chip8.V[X]
          IN  /\ chip8'.V[15] = (IF n = 6 THEN v % 2 ELSE v \div 128)
              /\ chip8'.V[X] = (IF n = 6 THEN v \div 2 ELSE (2 * v) % 256) ]_vars

(***************************************************************************)
(* The draw instruction, on programs that draw a background sprite, set     *)
(* V[X] and V[Y], and then execute the same DXYN three times.               *)
(***************************************************************************)
\* (X, Y): distinct registers, one register twice, the flag register as X,
\* as Y
DrawRegs == { << 0, 1 >>, << 5, 5 >>, << 15, 1 >>, << 1, 15 >> }

\* x coordinates: inside a row, across its end, at its end, beyond 64
DrawXs == { 0, 60, 63, 255 }

\* y coordinates: at the top, across the bottom, beyond 32
DrawYs == { 0, 30, 255 }

\* sprite heights
DrawHeights == { 0, 1, 5, 15 }

\* 15 sprite rows of each kind
SpriteRows(kind) ==
    [r \in 1..15 |->
        CASE kind = "blank"  -> \h00
          [] kind = "full"   -> \hFF
          [] kind = "mixed"  -> (\h81 + 37 * r) % 256
          [] kind = "stripe" -> \hAA]

\* where the program below keeps the background and the sprite
BackgroundAddr == \h212
SpriteAddr == \h221

\* A bg; D23F (the background, at (V[2], V[3]) = (0, 0)); 6X vx; 6Y vy;
\* A sprite; DXYN; DXYN; DXYN; halt; 15 background rows; 15 sprite rows
DrawProg(X, Y, vx, vy, N, bg, sprite) ==
    Prog(<< \hA000 + BackgroundAddr,
            \hD23F,
            \h6000 + X * 256 + vx,
            \h6000 + Y * 256 + vy,
            \hA000 + SpriteAddr,
            \hD000 + X * 256 + Y * 16 + N,
            \hD000 + X * 256 + Y * 16 + N,
            \hD000 + X * 256 + Y * 16 + N,
            \h1210 >>,
         SpriteRows(bg) \o SpriteRows(sprite))

DrawRoms ==
    { RomFile(DrawProg(xy[1], xy[2], vx, vy, N, bg, sprite)) :
        xy \in DrawRegs, vx \in DrawXs, vy \in DrawYs, N \in DrawHeights,
        bg \in { "blank", "stripe" }, sprite \in { "blank", "full", "mixed" } }

InitDraw == InitWith(DrawRoms, { chip8_fontset })

NextDraw ==
    \/ Load
    \/ EmulateCycle

SpecDraw == InitDraw /\ [][NextDraw]_vars

\* the (row, column) pairs of the set bits of the N-row sprite at memory[I..]
SetBits(m, N) ==
    { rc \in (0..(N - 1)) \X (0..7) : Bit(m.memory[m.I + rc[1]], 7 - rc[2]) = 1 }

\* the framebuffer index the claims give for sprite bit (r, c) drawn at (vx, vy)
CellOf(vx, vy, rc) == ((vy + rc[1]) % 32) * 64 + ((vx + rc[2]) % 64)

\* m is about to execute a draw instruction
AtDraw(m) == FetchInBounds(m) /\ FamilyOf(Fetch(m)) = 13

\* s0 and s1 are about to execute draws with the same coordinates, the same
\* height, the same I and the same sprite bytes
SameDraw(s0, s1) ==
    /\ AtDraw(s0)
    /\ AtDraw(s1)
    /\ NOf(Fetch(s0)) = NOf(Fetch(s1))
    /\ s0.V[XOf(Fetch(s0))] = s1.V[XOf(Fetch(s1))]
    /\ s0.V[YOf(Fetch(s0))] = s1.V[YOf(Fetch(s1))]
    /\ s0.I = s1.I
    /\ \A r \in 0..(NOf(Fetch(s0)) - 1) : s0.memory[s0.I + r] = s1.memory[s1.I + r]

\* the last two calls were emulate_cycle calls that executed the same draw
DrewTwice ==
    /\ last_call = "emulate_cycle"
    /\ outcome = "Ok"
    /\ Len(hist) >= 2
    /\ SameDraw(hist[2], hist[1])

\* C9 as stated: two executions of the same draw restore the framebuffer,
\* and after the second V[15] is 1 whenever the sprite has a set bit.
C9_DoubleDrawRestoresAndFlags ==
    DrewTwice =>
        /\ chip8.display = hist[2].display
        /\ (SetBits(hist[2], NOf(Fetch(hist[2]))) # {}) => chip8.V[15] = 1

\* C9 as amended: two executions of the same draw restore the framebuffer,
\* and after the second V[15] is 1 exactly when some set bit of the sprite
\* addresses a cell that was 0 before the first draw.
C9_DoubleDrawRestoresAndFlagsBlank ==
    DrewTwice =>
        LET s0 == hist[2]
            vx == s0.V[XOf(Fetch(s0))]
            vy == s0.V[YOf(Fetch(s0))]
        IN  /\ chip8.display = s0.display
            /\ (chip8.V[15] = 1) <=>
                   (\E rc \in SetBits(s0, NOf(Fetch(s0))) :
                       s0.display[CellOf(vx, vy, rc)] = 0)
            /\ chip8.V[15] \in { 0, 1 }

\* C9 witness: the same wrapped sprite was drawn twice on a framebuffer that
\* was not blank, the framebuffer was different in between, and V[15] is 1
C9_Witness ==
    /\ DrewTwice
    /\ NOf(Fetch(hist[2])) = 15
    /\ hist[2].V[XOf(Fetch(hist[2]))] = 255
    /\ hist[2].V[YOf(Fetch(hist[2]))] = 30
    /\ \E p \in 0..2047 : hist[2].display[p] = 1
    /\ hist[1].display # hist[2].display
    /\ chip8.display = hist[2].display
    /\ chip8.V[15] = 1

\* C10: a draw toggles exactly the cells ((V[Y]+r) mod 32) * 64 +
\* ((V[X]+c) mod 64) of the set sprite bits (r, c), for all V[X], V[Y] in
\* 0..255; the framebuffer keeps its 2048 cells and every other cell is
\* unchanged.  (The sprite rows themselves lie inside memory.)
C10_DrawTogglesWrappedCells ==
    [][ (CycleStep /\ AtDraw(chip8)
                   /\ chip8.I + NOf(Fetch(chip8)) <= 4096) =>
          LET op == Fetch(chip8)
              vx == chip8.V[XOf(op)]
              vy == chip8.V[YOf(op)]
              toggled == { CellOf(vx, vy, rc) : rc \in SetBits(chip8, NOf(op)) }
          IN  /\ outcome' = "Ok"
              /\ DOMAIN chip8'.display = 0..2047
              /\ Cardinality(toggled) = Cardinality(SetBits(chip8, NOf(op)))
              /\ \A p \in 0..2047 :
                    chip8'.display[p] =
                        IF p \in toggled THEN 1 - chip8.display[p]
                                         ELSE chip8.display[p] ]_vars

\* C10 witness: a 15-row sprite with set bits was drawn at (255, 30), which
\* wraps in both directions, and lit cell 0 and cell 63 of the last row
C10_Witness ==
    /\ last_call = "emulate_cycle"
    /\ outcome = "Ok"
    /\ Len(hist) >= 1
    /\ AtDraw(hist[1])
    /\ NOf(Fetch(hist[1])) = 15
    /\ hist[1].V[XOf(Fetch(hist[1]))] = 255
    /\ hist[1].V[YOf(Fetch(hist[1]))] = 30
    /\ hist[1].display[31 * 64 + 63] = 0
    /\ chip8.display[31 * 64 + 63] = 1
    /\ hist[1].display[31 * 64] = 0
    /\ chip8.display[31 * 64] = 1

(***************************************************************************)
(* Control flow: programs of nested calls and returns, and programs that    *)
(* set V[X] (and V[Y]) and then execute one skip instruction.               *)
(***************************************************************************)
\* call depths 1, 2 and 3; every program ends in a jump to itself
CallRoms ==
    { \* 0x200 call 0x204; 0x202 halt; 0x204 return
      RomFile(Prog(<< \h2204, \h1202, \h00EE >>, << >>)),
      \* 0x200 call 0x204; 0x202 halt; 0x204 call 0x208; 0x206 return;
      \* 0x208 return
      RomFile(Prog(<< \h2204, \h1202, \h2208, \h00EE, \h00EE >>, << >>)),
      \* the same, and 0x208 call 0x20C; 0x20A return; 0x20C return
      RomFile(Prog(<< \h2204, \h1202, \h2208, \h00EE, \h220C, \h00EE,
                      \h00EE >>, << >>)),
      \* 0x200 call 0x206; 0x202 call 0x206; 0x204 halt; 0x206 return
      RomFile(Prog(<< \h2206, \h2206, \h1204, \h00EE >>, << >>)) }

\* register indices and values of the skip programs
SkipRegs == { 0, 7, 15 }
SkipValues == { 0, 1, 255 }

\* 6X vx; (3|4)XNN; halt; halt
SkipImmProg(family, X, vx, NN) ==
    Prog(<< \h6000 + X * 256 + vx,
            family * 4096 + X * 256 + NN,
            \h1204,
            \h1206 >>, << >>)

\* 6X vx; 6Y vy; (5|9)XY0; halt; halt
SkipRegProg(family, X, Y, vx, vy) ==
    Prog(<< \h6000 + X * 256 + vx,
            \h6000 + Y * 256 + vy,
            family * 4096 + X * 256 + Y * 16,
            \h1206,
            \h1208 >>, << >>)

SkipRoms ==
    { RomFile(SkipImmProg(family, X, vx, NN)) :
        family \in { 3, 4 }, X \in SkipRegs, vx \in SkipValues,
        NN \in SkipValues }
    \cup
    { RomFile(SkipRegProg(family, X, Y, vx, vy)) :
        family \in { 5, 9 }, X \in SkipRegs, Y \in SkipRegs,
        vx \in SkipValues, vy \in SkipValues }

InitFlow == InitWith(CallRoms \cup SkipRoms, { chip8_fontset })

NextFlow ==
    \/ Load
    \/ EmulateCycle

SpecFlow == InitFlow /\ [][NextFlow]_vars

\* the last two calls were a cycle that executed a call 2NNN and then a
\* cycle that executed a return 00EE
CalledAndReturned ==
    /\ last_call = "emulate_cycle"
    /\ outcome = "Ok"
    /\ Len(hist) >= 2
    /\ FetchInBounds(hist[2]) /\ FamilyOf(Fetch(hist[2])) = 2
    /\ FetchInBounds(hist[1]) /\ Fetch(hist[1]) = \h00EE

\* C11: a call at PC = p followed immediately by a return leaves PC = p + 2
\* and the stack as before the call; and in general every call pushes its
\* site on top of the stack and goes to NNN, and every return (on a stack
\* that is not empty) removes the top entry q alone and goes to q + 2, so
\* that N calls followed by N returns come back to the sites last-in
\* first-out and the stack depth is restored.
C11_CallReturnLifo ==
    /\ [](CalledAndReturned =>
            /\ chip8.PC = hist[2].PC + 2
            /\ chip8.stack = hist[2].stack)
    /\ [][ (CycleStep /\ FamilyOf(Fetch(chip8)) = 2) =>
             /\ chip8'.stack = Append(chip8.stack, chip8.PC)
             /\ chip8'.PC = Fetch(chip8) % 4096 ]_vars
    /\ [][ (CycleStep /\ Fetch(chip8) = \h00EE /\ chip8.stack # << >>) =>
             /\ chip8'.PC = chip8.stack[Len(chip8.stack)] + 2
             /\ Len(chip8'.stack) = Len(chip8.stack) - 1
             /\ \A k \in 1..Len(chip8'.stack) :
                   chip8'.stack[k] = chip8.stack[k] ]_vars

\* C11 witness: the last two cycles were returns from a nest of two calls,
\* made at 0x200 and then at 0x204; they came back to 0x206 and then to
\* 0x202, and the stack is empty again
C11_Witness ==
    /\ last_call = "emulate_cycle"
    /\ outcome = "Ok"
    /\ Len(hist) >= 2
    /\ hist[2].stack = << \h200, \h204 >>
    /\ Fetch(hist[2]) = \h00EE
    /\ hist[1].stack = << \h200 >>
    /\ hist[1].PC = \h206
    /\ Fetch(hist[1]) = \h00EE
    /\ chip8.PC = \h202
    /\ chip8.stack = << >>

\* the condition of the skip instruction opcode on machine m
SkipCondition(m, opcode) ==
    LET vx == m.V[XOf(opcode)]
        vy == m.V[YOf(opcode)]
        NN == opcode % 256
    IN  CASE FamilyOf(opcode) = 3 -> vx = NN
          [] FamilyOf(opcode) = 4 -> vx # NN
          [] FamilyOf(opcode) = 5 -> vx = vy
          [] FamilyOf(opcode) = 9 -> vx # vy

\* m is about to execute 3XNN, 4XNN, 5XY0 or 9XY0
AtSkip(m) ==
    /\ FetchInBounds(m)
    /\ \/ FamilyOf(Fetch(m)) \in { 3, 4 }
       \/ FamilyOf(Fetch(m)) \in { 5, 9 } /\ NOf(Fetch(m)) = 0

\* C12: after 3XNN, 4XNN, 5XY0 or 9XY0 PC is the old PC + 4 exactly when the
\* instruction's condition holds and the old PC + 2 otherwise, and nothing
\* else of the machine changes.
C12_SkipAdvancesBy4Or2 ==
    [][ (CycleStep /\ AtSkip(chip8)) =>
          /\ outcome' = "Ok"
          /\ chip8' = [chip8 EXCEPT !.PC =
                 chip8.PC + (IF SkipCondition(chip8, Fetch(chip8))
                             THEN 4 ELSE 2)] ]_vars

\* C12 witness: 9F70 was executed with V[15] = 255 and V[7] = 1 and skipped
C12_Witness ==
    /\ last_call = "emulate_cycle"
    /\ outcome = "Ok"
    /\ Len(hist) >= 1
    /\ Fetch(hist[1]) = \h9F70
    /\ hist[1].V[15] = 255
    /\ hist[1].V[7] = 1
    /\ chip8.PC = hist[1].PC + 4

(***************************************************************************)
(* The timers, on programs that set delay_timer and sound_timer and halt.   *)
(***************************************************************************)
\* (delay_timer, sound_timer) values: the largest value beside 0 and 1, each
\* way round, and small values, equal and unequal
TimerPairs ==
    { << 255, 0 >>, << 255, 1 >>, << 0, 255 >>, << 1, 255 >>,
      << 1, 1 >>, << 1, 2 >>, << 2, 1 >>, << 2, 2 >> }

\* 60 N; F015 (delay_timer = N); 61 M; F118 (sound_timer = M); halt
TimerProg(N, M) ==
    Prog(<< \h6000 + N, \hF015, \h6100 + M, \hF118, \h1208 >>, << >>)

TimerRoms == { RomFile(TimerProg(nm[1], nm[2])) : nm \in TimerPairs }

InitTimers == InitWith(TimerRoms, { chip8_fontset })

NextTimers ==
    \/ Load
    \/ EmulateCycle
    \/ UpdateTimers

SpecTimers == InitTimers /\ [][NextTimers]_vars

\* C13: a call of update_timers takes each timer from t > 0 to t - 1 and
\* leaves a timer that is 0 at 0, each timer by its own value alone, and
\* changes nothing else; so k calls with no set-timer instruction in between
\* take a timer from N to max(N - k, 0), and it never wraps to 255.
C13_TimersCountDownToZero ==
    [][ (last_call' = "update_timers") =>
          /\ chip8'.delay_timer =
                 (IF chip8.delay_timer >= 1 THEN chip8.delay_timer - 1 ELSE 0)
          /\ chip8'.sound_timer =
                 (IF chip8.sound_timer >= 1 THEN chip8.sound_timer - 1 ELSE 0)
          /\ chip8' = [chip8 EXCEPT !.delay_timer = chip8'.delay_timer,
                                    !.sound_timer = chip8'.sound_timer]
          /\ outcome' = outcome ]_vars

\* C13 witness: the program set delay_timer = 1 and sound_timer = 255 and
\* halted; update_timers has been called since, delay_timer is 0 and
\* sound_timer has come down to 0 as well, which takes 255 calls, 254 of them
\* with delay_timer already 0
C13_Witness ==
    /\ last_call = "update_timers"
    /\ chip8.PC = \h208
    /\ chip8.V[0] = 1
    /\ chip8.V[1] = 255
    /\ chip8.delay_timer = 0
    /\ chip8.sound_timer = 0

(***************************************************************************)
(* Wait for key.                                                            *)
(***************************************************************************)
\* m is about to execute FX0A
AtWaitForKey(m) ==
    FetchInBounds(m) /\ FamilyOf(Fetch(m)) = 15 /\ Fetch(m) % 256 = \h0A

\* the keys that are down on m
PressedKeys(m) == { i \in 0..15 : m.keypad[i] = 1 }

\* C14: a cycle on FX0A changes nothing of the machine while every keypad
\* entry is 0 (so any number of such cycles leave PC, V and the rest as they
\* were); with some keypad entry 1 it advances PC by 2 and sets V[X] to the
\* lowest index i with keypad[i] = 1.
C14_WaitForKey ==
    [][ (CycleStep /\ AtWaitForKey(chip8)) =>
          /\ outcome' = "Ok"
          /\ (PressedKeys(chip8) = {}) => chip8' = chip8
          /\ (PressedKeys(chip8) # {}) =>
                \E i \in PressedKeys(chip8) :
                   /\ \A j \in PressedKeys(chip8) : i <= j
                   /\ chip8' = [chip8 EXCEPT !.PC = chip8.PC + 2,
                                             !.V[XOf(Fetch(chip8))] = i] ]_vars

\* C14 witness: F20A was executed with keys 3 and 15 down and key 0 up, and
\* V[2] is 3
C14_Witness ==
    /\ last_call = "emulate_cycle"
    /\ outcome = "Ok"
    /\ Len(hist) >= 1
    /\ Fetch(hist[1]) = \hF20A
    /\ PressedKeys(hist[1]) = { 3, 15 }
    /\ chip8.V[2] = 3
    /\ chip8.PC = hist[1].PC + 2

(***************************************************************************)
(* main's frame loop (main.rs, lines 70-114).  One iteration: the pending   *)
(* events are applied, CPF cycles run, update_timers is called if a timer   *)
(* tick is due, and the framebuffer is rendered if draw_flag is set.        *)
(***************************************************************************)
\* the loop is running: init returned Ok, nothing has panicked, no Quit
HostRunning == Live /\ last_call # "new" /\ host.phase # "quit"

\* a call or a write in the loop leaves the loop position to the caller
HostAt(phase) == HostRunning /\ host.phase = phase

\* Event::KeyDown, not a repeat, of a mapped scancode (lines 77-84)
HostKeyDown == HostAt("events") /\ KeyDownEvent /\ UNCHANGED host

\* Event::KeyUp of a mapped scancode (lines 85-90)
HostKeyUp == HostAt("events") /\ KeyUpEvent /\ UNCHANGED host

\* Event::Quit: break 'running (line 76)
HostQuit ==
    /\ HostAt("events")
    /\ host' = [host EXCEPT !.phase = "quit"]
    /\ last_call' = "quit"
    /\ hist' = << >>
    /\ UNCHANGED << chip8, outcome, rom_file, fontset, executed >>

\* poll_iter() has no more events: the for loop over the cycles starts
HostEventsDone ==
    /\ HostAt("events")
    /\ host' = [host EXCEPT !.phase = "cycles", !.cycles = 0]
    /\ last_call' = "events_done"
    /\ hist' = << >>
    /\ UNCHANGED << chip8, outcome, rom_file, fontset, executed >>

\* for _ in 0..CPF { chip8.emulate_cycle(); } (lines 95-97), one iteration
HostCycle ==
    /\ HostAt("cycles")
    /\ host.cycles < CPF
    /\ CallEmulateCycle
    /\ host' = [host EXCEPT !.cycles = host.cycles + 1,
                            !.phase = IF host.cycles + 1 = CPF
                                      THEN "timers" ELSE "cycles"]

\* last_frame.elapsed() >= TIMER_TICK: chip8.update_timers() (lines 99-102)
HostTick ==
    /\ HostAt("timers")
    /\ CallUpdateTimers
    /\ host' = [host EXCEPT !.phase = "present"]

\* last_frame.elapsed() < TIMER_TICK
HostNoTick ==
    /\ HostAt("timers")
    /\ host' = [host EXCEPT !.phase = "present"]
    /\ last_call' = "no_tick"
    /\ hist' = << >>
    /\ UNCHANGED << chip8, outcome, rom_file, fontset, executed >>

\* a HostPresent that renders and leaves draw_flag set
HostPresent_keepflag ==
    /\ HostAt("present")
    /\ chip8.draw_flag
    /\ host' = [host EXCEPT !.phase = "events", !.shown = chip8.display]
    /\ last_call' = "present"
    /\ hist' = << >>
    /\ UNCHANGED << chip8, outcome, rom_file, fontset, executed >>

\* chip8.draw_flag is set: render_display(&chip8.display), then
\* chip8.draw_flag = false (lines 104-108)
HostPresent ==
    /\ HostAt("present")
    /\ RenderAndClear
    /\ host' = [host EXCEPT !.phase = "events", !.shown = chip8.display]

\* chip8.draw_flag is not set: nothing is rendered
HostNoPresent ==
    /\ HostAt("present")
    /\ ~chip8.draw_flag
    /\ host' = [host EXCEPT !.phase = "events"]
    /\ last_call' = "no_present"
    /\ hist' = << >>
    /\ UNCHANGED << chip8, outcome, rom_file, fontset, executed >>

\* programs for the loop
HostRoms ==
    { \* A222; D001 (draws 0xFF at (0, 0)); 13 times 6000; 00E0; halt;
      \* data 0xFF: the clear is the 16th instruction, so it runs in the
      \* second batch
      RomFile(Prog(<< \hA222, \hD001 >>
                   \o [k \in 1..13 |-> \h6000]
                   \o << \h00E0, \h1220 >>, << \hFF >>)),
      \* wait for key into V[2]; A208; D221; halt; data 0xFF
      RomFile(Prog(<< \hF20A, \hA208, \hD221, \h1206 >>, << \hFF >>)),
      \* timers 2 and 1; halt
      RomFile(TimerProg(2, 1)) }

InitHost == InitWith(HostRoms, { chip8_fontset })

NextHost ==
    \/ Load
    \/ HostKeyDown
    \/ HostKeyUp
    \/ HostQuit
    \/ HostEventsDone
    \/ HostCycle
    \/ HostTick
    \/ HostNoTick
    \/ HostPresent
    \/ HostNoPresent

SpecHost == InitHost /\ [][NextHost]_vars

\* m is about to execute the clear-screen instruction 00E0
AtClear(m) == FetchInBounds(m) /\ Fetch(m) = \h00E0

\* C15: after a cycle that executes DXYN or 00E0, draw_flag is true, whatever
\* it was before the cycle.
C15_DrawFlagSetByDrawAndClear ==
    [][ (CycleStep /\ outcome' = "Ok" /\ (AtDraw(chip8) \/ AtClear(chip8)))
            => chip8'.draw_flag ]_vars

\* C16: after DXYN, V[15] is 1 if some framebuffer cell that was 1 before
\* the draw is 0 after it, and 0 otherwise, whatever V[15] held before and
\* whether or not X or Y is 15.  (The sprite rows lie inside memory.)
C16_CollisionFlag ==
    [][ (CycleStep /\ AtDraw(chip8)
                   /\ chip8.I + NOf(Fetch(chip8)) <= 4096) =>
          /\ outcome' = "Ok"
          /\ chip8'.V[15] =
                 (IF \E p \in 0..2047 :
                        chip8.display[p] = 1 /\ chip8'.display[p] = 0
                  THEN 1 ELSE 0) ]_vars

\* C16 witness: a draw DFYN, at x = V[15] = 255, erased a lit cell and left
\* V[15] = 1
C16_Witness ==
    /\ last_call = "emulate_cycle"
    /\ outcome = "Ok"
    /\ Len(hist) >= 1
    /\ AtDraw(hist[1])
    /\ XOf(Fetch(hist[1])) = 15
    /\ hist[1].V[15] = 255
    /\ \E p \in 0..2047 : hist[1].display[p] = 1 /\ chip8.display[p] = 0
    /\ chip8.V[15] = 1

(***************************************************************************)
(* Every instruction: one program that executes each decode arm, and        *)
(* programs whose operands index memory or keypad at and beyond the end,    *)
(* under the calls of Next.                                                 *)
(***************************************************************************)
\* the subroutine and the sprite of AllOpsProg
AllOpsSub == \h24E
AllOpsSprite == \h250

\* a draw, then every other arm once, a clear, a second draw, and an unknown
\* word, on which the machine stays.  V[0] stays 0 and V[1] is 6, so no skip is taken except
\* by the key instructions, which skip over a 6000.
AllOpsProg ==
    Prog(<< \hA000 + AllOpsSprite,     \* 0x200  I = sprite
            \hD015,                    \* 0x202  draw 5 rows at (0, 0)
            \h6105,                    \* 0x204  V[1] = 5
            \h7101,                    \* 0x206  V[1] = 6
            \h8210,                    \* 0x208  V[2] = V[1]
            \h8211,                    \* 0x20A  or
            \h8212,                    \* 0x20C  and
            \h8213,                    \* 0x20E  xor
            \h8214,                    \* 0x210  add
            \h8215,                    \* 0x212  sub
            \h8216,                    \* 0x214  shift right
            \h8217,                    \* 0x216  reverse sub
            \h821E,                    \* 0x218  shift left
            \h3100,                    \* 0x21A  V[1] = 0 ? no
            \h4106,                    \* 0x21C  V[1] # 6 ? no
            \h5100,                    \* 0x21E  V[1] = V[0] ? no
            \h9110,                    \* 0x220  V[1] # V[1] ? no
            \h1224,                    \* 0x222  jump 0x224
            \hB226,                    \* 0x224  jump 0x226 + V[0]
            \h2000 + AllOpsSub,        \* 0x226  call
            \hE09E,                    \* 0x228  skip if key V[0] down
            \h6000,                    \* 0x22A
            \hE0A1,                    \* 0x22C  skip if key V[0] up
            \h6000,                    \* 0x22E
            \h6601,                    \* 0x230  V[6] = 1
            \hF615,                    \* 0x232  delay_timer = 1
            \hF618,                    \* 0x234  sound_timer = 1
            \hF707,                    \* 0x236  V[7] = delay_timer
            \hF11E,                    \* 0x238  I += 6
            \hF129,                    \* 0x23A  I = font sprite 6
            \hF133,                    \* 0x23C  BCD of 6 at I
            \hF255,                    \* 0x23E  store V[0..2]
            \hF265,                    \* 0x240  load V[0..2]
            \hF50A,                    \* 0x242  wait for key
            \hC3FF,                    \* 0x244  V[3] = random
            \h00E0,                    \* 0x246  clear
            \hD015,                    \* 0x248  draw the 5 rows at I
            \h0000,                    \* 0x24A  unknown
            \h0000,                    \* 0x24C
            \h00EE >>,                 \* 0x24E  return
         << \hFF, \h81, \h81, \h81, \hFF >>)

\* A NNN; the instruction op, with I = NNN; halt
AtIndexProg(NNN, op) == Prog(<< \hA000 + NNN, op, \h1204 >>, << >>)

\* 60 vx; the instruction op, with V[0] = vx; halt; halt
AtKeyProg(vx, op) == Prog(<< \h6000 + vx, op, \h1204, \h1206 >>, << >>)

\* operands at the last valid index and one beyond it
IndexRoms ==
    { RomFile(AtIndexProg(\hFFF, \hD001)), RomFile(AtIndexProg(\hFFF, \hD002)),
      RomFile(AtIndexProg(\hFFD, \hF033)), RomFile(AtIndexProg(\hFFE, \hF033)),
      RomFile(AtIndexProg(\hFFE, \hF155)), RomFile(AtIndexProg(\hFFF, \hF155)),
      RomFile(AtIndexProg(\hFFE, \hF165)), RomFile(AtIndexProg(\hFFF, \hF165)),
      RomFile(AtKeyProg(15, \hE09E)), RomFile(AtKeyProg(16, \hE09E)),
      RomFile(AtKeyProg(15, \hE0A1)), RomFile(AtKeyProg(255, \hE0A1)),
      \* I = 0xFFF + 0xFF by FX1E, then a draw of one row
      RomFile(Prog(<< \hAFFF, \h60FF, \hF01E, \hD101, \h1208 >>, << >>)) }

InitInstr == InitWith({ RomFile(AllOpsProg) } \cup IndexRoms, { chip8_fontset })

SpecInstr == InitInstr /\ [][Next]_vars

\* m is about to execute an instruction that indexes memory from I or
\* keypad by V[X]: DXYN, EX9E, EXA1, FX33, FX55, FX65
AtIndexed(m) ==
    /\ FetchInBounds(m)
    /\ \/ FamilyOf(Fetch(m)) = 13
       \/ FamilyOf(Fetch(m)) = 14 /\ Fetch(m) % 256 \in { \h9E, \hA1 }
       \/ FamilyOf(Fetch(m)) = 15 /\ Fetch(m) % 256 \in { \h33, \h55, \h65 }

\* C17: for every I and every V[X], a cycle that executes DXYN, FX33, FX55,
\* FX65, EX9E or EXA1 indexes memory below 4096 and keypad below 16 only:
\* it does not panic.
C17_OperandIndexesInBounds ==
    [][ (CycleStep /\ AtIndexed(chip8)) => outcome' # "panic" ]_vars

C20_EngineNeverClearsDrawFlag ==
    /\ [][ (chip8.draw_flag /\ last_call' \in { "emulate_cycle", "update_timers" })
              => chip8'.draw_flag ]_vars
    /\ [][ (chip8.draw_flag /\ ~chip8'.draw_flag)
              => last_call' = "present" ]_vars

\* C20 witness: the last cycle executed 00E0 with draw_flag true; it cleared
\* the display and draw_flag is still true
C20_Witness ==
    /\ last_call = "emulate_cycle"
    /\ outcome = "Ok"
    /\ Len(hist) >= 1
    /\ AtClear(hist[1])
    /\ hist[1].draw_flag
    /\ chip8.draw_flag
    /\ \A p \in 0..2047 : chip8.display[p] = 0

\* the order of the phases of one loop iteration, and the way out
PhaseOrder ==
    { << "events", "cycles" >>, << "cycles", "timers" >>,
      << "timers", "present" >>, << "present", "events" >>,
      << "events", "quit" >> }

\* C18: in each iteration of the frame loop the key events are applied, then
\* exactly 15 cycles run, then update_timers is called at most once, then the
\* framebuffer is rendered and draw_flag cleared if draw_flag is set.  So
\* keypad changes only before a batch, draw_flag is false when a batch
\* starts, and draw_flag is cleared only in the step that renders the
\* framebuffer as it is then.
C18_FrameLoopOrder ==
    /\ [][ (host'.phase # host.phase)
              => << host.phase, host'.phase >> \in PhaseOrder ]_vars
    /\ [][ (chip8'.keypad # chip8.keypad)
              => host.phase = "events" /\ host'.phase = "events" ]_vars
    /\ [][ (last_call' = "emulate_cycle")
              => /\ host.phase = "cycles"
                 /\ host.cycles < 15
                 /\ host'.cycles = host.cycles + 1
                 /\ chip8'.keypad = chip8.keypad ]_vars
    /\ [][ (host.phase = "cycles" /\ host'.phase # "cycles")
              => host'.cycles = 15 ]_vars
    /\ [][ (last_call' = "update_timers")
              => /\ host.phase = "timers"
                 /\ host.cycles = 15
                 /\ host'.phase = "present" ]_vars
    /\ [][ (host.phase = "present" /\ host'.phase # "present")
              => IF chip8.draw_flag
                 THEN host'.shown = chip8.display /\ ~chip8'.draw_flag
                 ELSE host'.shown = host.shown /\ chip8' = chip8 ]_vars
    /\ [][ (chip8.draw_flag /\ ~chip8'.draw_flag)
              => host.phase = "present" /\ host'.shown = chip8.display ]_vars
    /\ [](host.phase = "cycles" /\ host.cycles = 0 => ~chip8.draw_flag)

\* C18 witness: a batch is about to start, in an iteration after the first:
\* key 3 is down, a frame with lit cells has been rendered, and draw_flag is
\* false
C18_Witness ==
    /\ outcome = "Ok"
    /\ last_call = "events_done"
    /\ host.phase = "cycles"
    /\ host.cycles = 0
    /\ chip8.keypad[3] = 1
    /\ \E p \in 0..2047 : host.shown[p] = 1
    /\ host.shown = chip8.display
    /\ ~chip8.draw_flag

(***************************************************************************)
(* The stack: the call nests, a subroutine that jumps, a return with no     *)
(* call, and the program that executes every instruction, under the calls   *)
(* of Next.                                                                 *)
(***************************************************************************)
StackRoms ==
    CallRoms
    \cup
    { \* 0x200 call 0x204; 0x202 halt; 0x204 jump 0x206;
      \* 0x206 jump 0x208 + V[0]; 0x208 return
      RomFile(Prog(<< \h2204, \h1202, \h1206, \hB208, \h00EE >>, << >>)),
      \* call, return, return
      RomFile(Prog(<< \h2204, \h00EE, \h00EE >>, << >>)),
      RomFile(AllOpsProg) }

InitStack == InitWith(StackRoms, { chip8_fontset })

SpecStack == InitStack /\ [][Next]_vars

\* m is about to execute a call 2NNN
AtCall(m) == FetchInBounds(m) /\ FamilyOf(Fetch(m)) = 2

\* m is about to execute a return 00EE
AtReturn(m) == FetchInBounds(m) /\ Fetch(m) = \h00EE

=============================================================================
